---------------------------- MODULE Spec2Model ----------------------------
(***************************************************************************)
(* imdb2json.py: the sort-merge-group engine of do_convert (roundrobin,    *)
(* rec_sorted, heapq.merge, itertools.groupby, the fold of update tuples)  *)
(* and the title identifier classifier (TID_PAT, construct_title).         *)
(*                                                                         *)
(* A Python str is a sequence of one-character strings.  A Python value is *)
(* a record [t |-> type tag, v |-> payload].  A dict is a function from    *)
(* field names to values.                                                  *)
(***************************************************************************)
EXTENDS Integers, Sequences, FiniteSets, Bags, TLC

(***************************************************************************)
(* Python values                                                           *)
(***************************************************************************)
PyStr(s)  == [t |-> "str",  v |-> s]
PyInt(n)  == [t |-> "int",  v |-> n]
PyList(l) == [t |-> "list", v |-> l]
PyDict(d) == [t |-> "dict", v |-> d]
PyTrue    == [t |-> "bool", v |-> TRUE]
PyNone    == [t |-> "null", v |-> <<>>]

EmptyDict == [x \in {} |-> PyNone]

\* d[k] = val
DictSet(d, k, val) == (k :> val) @@ d

\* None, the result of m.group(name) for a group that took no part
NoGroup == <<>>

(***************************************************************************)
(* Characters: ord() of the printable ASCII characters, str comparison     *)
(***************************************************************************)
\* the characters of code 32..95, and those of code 97..126
AsciiLo ==
  << " ", "!", "\"", "#", "$", "%", "&", "'", "(", ")", "*", "+", ",", "-",
     ".", "/", "0", "1", "2", "3", "4", "5", "6", "7", "8", "9", ":", ";",
     "<", "=", ">", "?", "@", "A", "B", "C", "D", "E", "F", "G", "H", "I",
     "J", "K", "L", "M", "N", "O", "P", "Q", "R", "S", "T", "U", "V", "W",
     "X", "Y", "Z", "[", "\\", "]", "^", "_" >>

AsciiHi ==
  << "a", "b", "c", "d", "e", "f", "g", "h", "i", "j", "k", "l", "m", "n",
     "o", "p", "q", "r", "s", "t", "u", "v", "w", "x", "y", "z", "{", "|",
     "}", "~" >>

Ord(c) ==
  IF c = "\t" THEN 9
  ELSE IF \E i \in 1..Len(AsciiLo) : AsciiLo[i] = c
  THEN 31 + (CHOOSE i \in 1..Len(AsciiLo) : AsciiLo[i] = c)
  ELSE 96 + (CHOOSE i \in 1..Len(AsciiHi) : AsciiHi[i] = c)

Min2(a, b) == IF a < b THEN a ELSE b

\* a < b for two str: the first differing code point decides, a proper
\* prefix is smaller
StrLess(a, b) ==
  LET n == Min2(Len(a), Len(b))
      D == {i \in 1..n : a[i] # b[i]}
  IN  IF D = {} THEN Len(a) < Len(b)
      ELSE LET i == CHOOSE j \in D : \A k \in D : j <= k
           IN  Ord(a[i]) < Ord(b[i])

Digits == <<"0", "1", "2", "3", "4", "5", "6", "7", "8", "9">>

IsDigit(c) == \E i \in 1..10 : Digits[i] = c
IsSpace(c) == c \in {" ", "\t"}
IsYearCh(c) == IsDigit(c) \/ c \in {"?", "/", "I", "V", "L", "X"}

DigitVal(c) == (CHOOSE i \in 1..10 : Digits[i] = c) - 1

\* int(s) for a str of decimal digits
RECURSIVE ToInt(_)
ToInt(s) ==
  IF s = <<>> THEN 0
  ELSE 10 * ToInt(SubSeq(s, 1, Len(s) - 1)) + DigitVal(s[Len(s)])

(***************************************************************************)
(* TID_PAT.  Every piece is a function of the text s and a start index i   *)
(* and gives the index after the piece, or 0 when the piece does not match *)
(* at i.  Greedy runs (\s+, \s*, \d+, {4,}) are followed by a character    *)
(* outside the run's class, so the longest run is the only one that can    *)
(* match; the lazy pieces (.+?) take the shortest length for which the     *)
(* rest of the pattern matches.                                            *)
(***************************************************************************)
LitAt(s, i, lit) ==
  /\ i >= 1
  /\ i + Len(lit) - 1 <= Len(s)
  /\ SubSeq(s, i, i + Len(lit) - 1) = lit

\* the index after the longest run of \s starting at i
SkipSpaces(s, i) ==
  CHOOSE j \in i..(Len(s) + 1) :
    /\ \A k \in i..(j - 1) : IsSpace(s[k])
    /\ (j = Len(s) + 1 \/ ~IsSpace(s[j]))

SkipDigits(s, i) ==
  CHOOSE j \in i..(Len(s) + 1) :
    /\ \A k \in i..(j - 1) : IsDigit(s[k])
    /\ (j = Len(s) + 1 \/ ~IsDigit(s[j]))

SkipYearCh(s, i) ==
  CHOOSE j \in i..(Len(s) + 1) :
    /\ \A k \in i..(j - 1) : IsYearCh(s[k])
    /\ (j = Len(s) + 1 \/ ~IsYearCh(s[j]))

\* \s+\([?\d/IVLX]{4,}\)
YearTok(s, i) ==
  IF i < 1 \/ i > Len(s) THEN 0
  ELSE LET j == SkipSpaces(s, i)
           k == SkipYearCh(s, j + 1)
       IN  IF /\ j > i
              /\ LitAt(s, j, <<"(">>)
              /\ k - (j + 1) >= 4
              /\ LitAt(s, k, <<")">>)
           THEN k + 1 ELSE 0

\* \s+ followed by the literal lit
Marker(s, i, lit) ==
  IF i < 1 \/ i > Len(s) THEN 0
  ELSE LET j == SkipSpaces(s, i)
       IN  IF j > i /\ LitAt(s, j, lit) THEN j + Len(lit) ELSE 0

\* the index after an optional piece that ends at m when it matches at i
OrSkip(m, i) == IF m > 0 THEN m ELSE i

\* (?P<tv>\s+\(TV\))?  and the like: the index after the optional marker
OptMarker(s, i, lit) == OrSkip(Marker(s, i, lit), i)

SUSPENDED ==
  <<"{", "{", "S", "U", "S", "P", "E", "N", "D", "E", "D", "}", "}">>

NoMatch ==
  [ok |-> FALSE, series |-> NoGroup, epi |-> NoGroup, epi_title |-> NoGroup,
   season |-> NoGroup, episode |-> NoGroup, epi_yr |-> NoGroup,
   epi_mon |-> NoGroup, epi_day |-> NoGroup, non_series |-> NoGroup,
   tv |-> NoGroup, video |-> NoGroup, videogame |-> NoGroup,
   suspended |-> NoGroup]

\* the first of two attempts that matches
FirstOk(m1, m2) == IF m1.ok THEN m1 ELSE m2

\* (?P<suspended>\s+\{\{SUSPENDED\}\})?$ at i, the marker ending at e when it
\* matches: the marker is tried first, then the end of the text
EndWith(s, i, e) ==
  IF e = Len(s) + 1 THEN [NoMatch EXCEPT !.ok = TRUE, !.suspended = SUSPENDED]
  ELSE IF i = Len(s) + 1 THEN [NoMatch EXCEPT !.ok = TRUE]
  ELSE NoMatch

EndAt(s, i) == EndWith(s, i, Marker(s, i, SUSPENDED))

\* \}(suspended)?$ at i
Closing(s, i) == IF LitAt(s, i, <<"}">>) THEN EndAt(s, i + 1) ELSE NoMatch

\* \s*\([#](?P<season>\d+)\.(?P<episode>\d+)\) at i, then the closing; j is
\* the index after the spaces, b and d the indexes after the two numbers
NumWith(s, j, b, d) ==
  IF /\ LitAt(s, j, <<"(", "#">>)
     /\ b > j + 2
     /\ LitAt(s, b, <<".">>)
     /\ d > b + 1
     /\ LitAt(s, d, <<")">>)
  THEN [Closing(s, d + 1) EXCEPT !.season = SubSeq(s, j + 2, b - 1),
                                 !.episode = SubSeq(s, b + 1, d - 1)]
  ELSE NoMatch

\* the index after the digits that start at i, 0 when i is beyond the text
DigitsEnd(s, i) == IF i >= 1 /\ i <= Len(s) + 1 THEN SkipDigits(s, i) ELSE 0

NumFrom(s, j, b) == NumWith(s, j, b, DigitsEnd(s, b + 1))

NumAt(s, i) == NumFrom(s, SkipSpaces(s, i), DigitsEnd(s, SkipSpaces(s, i) + 2))

\* \s*\((?P<epi_yr>\d{4})-(?P<epi_mon>\d{2})-(?P<epi_day>\d{2})\) with the
\* index j after the spaces, then the closing
DateWith(s, j) ==
  IF /\ LitAt(s, j, <<"(">>)
     /\ j + 11 <= Len(s)
     /\ \A k \in {1, 2, 3, 4, 6, 7, 9, 10} : IsDigit(s[j + k])
     /\ s[j + 5] = "-"
     /\ s[j + 8] = "-"
     /\ s[j + 11] = ")"
  THEN [Closing(s, j + 12) EXCEPT !.epi_yr = SubSeq(s, j + 1, j + 4),
                                  !.epi_mon = SubSeq(s, j + 6, j + 7),
                                  !.epi_day = SubSeq(s, j + 9, j + 10)]
  ELSE NoMatch

DateAt(s, i) == DateWith(s, SkipSpaces(s, i))

\* the rest of the episode block after the title, which ends before i:
\* (?: numbering | air date )? \} (suspended)? $, the numbering tried first,
\* then the air date, then neither
EpiRest(s, i) == FirstOk(NumAt(s, i), FirstOk(DateAt(s, i), Closing(s, i)))

\* (?P<epi_title>.+?) of n characters from t0, and the rest of the block
EpiTitled(s, t0, n) ==
  [EpiRest(s, t0 + n) EXCEPT !.epi_title = SubSeq(s, t0, t0 + n - 1)]

\* the lengths of title that let the rest of the pattern match
TitleLens(s, t0) == {n \in 1..(Len(s) + 1 - t0) : EpiRest(s, t0 + n).ok}

Least(S) == CHOOSE n \in S : \A k \in S : n <= k

\* the shortest title that lets the rest match, among the lengths Ls
EpiShortest(s, t0, Ls) ==
  IF Ls # {} THEN EpiTitled(s, t0, Least(Ls)) ELSE NoMatch

\* (?P<epi>\{)(?P<epi_title>.+?)? ... \} after the spaces, which end before
\* j: the block with a title, else the block without one
EpiOpen(s, y, j) ==
  IF j > y /\ LitAt(s, j, <<"{">>)
  THEN [FirstOk(EpiShortest(s, j + 1, TitleLens(s, j + 1)),
                EpiRest(s, j + 1)) EXCEPT !.epi = <<"{">>]
  ELSE NoMatch

\* what follows the year token of the series alternative, which ends before
\* y: the episode block, else no block
EpiBlock(s, y) ==
  IF y >= 1 /\ y <= Len(s)
  THEN FirstOk(EpiOpen(s, y, SkipSpaces(s, y)), EndAt(s, y))
  ELSE IF y = Len(s) + 1 THEN EndAt(s, y)
  ELSE NoMatch

\* the series alternative when the closing quote is at q
SeriesWith(s, q) ==
  IF q >= 3
  THEN [EpiBlock(s, YearTok(s, q + 1)) EXCEPT !.series = SubSeq(s, 2, q - 1)]
  ELSE NoMatch

\* "(?P<series>[^"]+)"\s+\([?\d/IVLX]{4,}\) and what follows it
SeriesQuoted(s, Q) == IF Q # {} THEN SeriesWith(s, Least(Q)) ELSE NoMatch

SeriesAlt(s) ==
  IF Len(s) >= 1 /\ s[1] = "\""
  THEN SeriesQuoted(s, {i \in 2..Len(s) : s[i] = "\""})
  ELSE NoMatch

\* the markers and the end after the year token; y, p1, p2, p3 are the
\* indexes after the year token and after each optional marker
MarkersWith(s, n, y, p1, p2, p3) ==
  [EndAt(s, p3) EXCEPT !.non_series = SubSeq(s, 1, n),
                       !.tv = SubSeq(s, y, p1 - 1),
                       !.video = SubSeq(s, p1, p2 - 1),
                       !.videogame = SubSeq(s, p2, p3 - 1)]

MarkersVG(s, n, y, p1, p2) ==
  MarkersWith(s, n, y, p1, p2, OptMarker(s, p2, <<"(", "V", "G", ")">>))

MarkersV(s, n, y, p1) ==
  MarkersVG(s, n, y, p1, OptMarker(s, p1, <<"(", "V", ")">>))

MarkersTV(s, n, y) ==
  IF y > 0 THEN MarkersV(s, n, y, OptMarker(s, y, <<"(", "T", "V", ")">>))
  ELSE NoMatch

\* what follows (?P<non_series>.+?) when the title is the first n characters
NonSeriesRest(s, n) == MarkersTV(s, n, YearTok(s, n + 1))

NonSeriesShortest(s, Ns) ==
  IF Ns # {} THEN NonSeriesRest(s, Least(Ns)) ELSE NoMatch

\* (?P<non_series>.+?)\s+\([?\d/IVLX]{4,}\)(tv)?(video)?(videogame)?
NonSeriesAlt(s) ==
  NonSeriesShortest(s, {n \in 1..Len(s) : NonSeriesRest(s, n).ok})

\* deviation from the code: the alternatives are tried in the other order
TID_PAT_NonSeriesFirst(s) == FirstOk(NonSeriesAlt(s), SeriesAlt(s))

\* TID_PAT.match(id): the series alternative first, then the other one
TID_PAT(s) == FirstOk(SeriesAlt(s), NonSeriesAlt(s))

(***************************************************************************)
(* construct_title                                                         *)
(***************************************************************************)
KIND_EPISODE   == <<"e", "p", "i", "s", "o", "d", "e">>
KIND_SERIES    == <<"s", "e", "r", "i", "e", "s">>
KIND_TV_MOVIE  == <<"t", "v", "-", "m", "o", "v", "i", "e">>
KIND_VIDEO     == <<"v", "i", "d", "e", "o">>
KIND_VIDEOGAME == <<"v", "i", "d", "e", "o", "g", "a", "m", "e">>
KIND_MOVIE     == <<"m", "o", "v", "i", "e">>

\* d[k] = val if the group g took part in the match
SetIf(d, g, k, val) == IF g # NoGroup THEN DictSet(d, k, val) ELSE d

\* the dict stored under 'episode'
EpisodeDict(m) ==
  SetIf(SetIf(SetIf(SetIf(SetIf(SetIf(EmptyDict,
    m.epi_title, "title", PyStr(m.epi_title)),
    m.season, "season", PyInt(ToInt(m.season))),
    m.episode, "episode", PyInt(ToInt(m.episode))),
    m.epi_yr, "year", PyInt(ToInt(m.epi_yr))),
    m.epi_yr, "month", PyInt(ToInt(m.epi_mon))),
    m.epi_yr, "day", PyInt(ToInt(m.epi_day)))

\* the kind of a title that is not a series
NonSeriesKind(m) ==
  IF m.tv # NoGroup THEN KIND_TV_MOVIE
  ELSE IF m.video # NoGroup THEN KIND_VIDEO
  ELSE IF m.videogame # NoGroup THEN KIND_VIDEOGAME
  ELSE KIND_MOVIE

\* the record construct_title builds from the match m
TitleRec(rec, m) ==
  IF ~m.ok THEN rec
  ELSE SetIf(
    IF m.series # NoGroup
    THEN IF m.epi # NoGroup
         THEN DictSet(DictSet(DictSet(rec, "title", PyStr(m.series)),
                              "episode", PyDict(EpisodeDict(m))),
                      "kind", PyStr(KIND_EPISODE))
         ELSE DictSet(DictSet(rec, "title", PyStr(m.series)),
                      "kind", PyStr(KIND_SERIES))
    ELSE DictSet(DictSet(rec, "title", PyStr(m.non_series)),
                 "kind", PyStr(NonSeriesKind(m))),
    m.suspended, "suspended", PyTrue)

\* deviation from the code: an id the pattern does not match is given a kind all the same
construct_title_DefaultKind(id) ==
  DictSet(DictSet(EmptyDict, "id", PyStr(id)), "kind", PyStr(KIND_MOVIE))

construct_title(id) ==
  TitleRec(DictSet(EmptyDict, "id", PyStr(id)), TID_PAT(id))

\* construct_name
construct_name(id) == DictSet(EmptyDict, "id", PyStr(id))

TITLE == "title"
NAME  == "name"

\* constructors[kind](id)
constructors(k, id) ==
  IF k = TITLE THEN construct_title(id) ELSE construct_name(id)

(***************************************************************************)
(* Update tuples (key, mix, field, value): a 4-tuple, x[0] is t[1]         *)
(***************************************************************************)
STORE  == 0
APPEND == 1

KeyOf(t) == t[1]

\* a <= b for two keys
KeyLeq(a, b) == a = b \/ StrLess(a, b)

(***************************************************************************)
(* roundrobin.  nexts is the cycle of the pending adapters, written as one *)
(* period that starts with the adapter whose __next__ is called next.      *)
(***************************************************************************)
\* the first n elements of a sequence
Islice(seq, n) == SubSeq(seq, 1, Min2(n, Len(seq)))

\* the cycle after its first element was taken
CycleAdvance(cyc) == Tail(cyc) \o <<Head(cyc)>>

\* deviation from the code: the new cycle is cut from the old one with its exhausted head
CycleDrop_FromStart(cyc, n) == Islice(cyc, n)

\* nexts = itertools.cycle(itertools.islice(nexts, pending)) after the
\* head of the cycle raised StopIteration; n is the decremented pending
CycleDrop(cyc, n) == Islice(CycleAdvance(cyc), n)

(***************************************************************************)
(* rec_sorted                                                              *)
(***************************************************************************)
\* sorted(srtd, key=lambda x: x[0]): stable, an element goes after every
\* element whose key is not greater
RECURSIVE SortedByKey(_)

\* deviation from the code: the buffer is written in arrival order
InsertByKey_NoSort(seq, t) == Append(seq, t)

\* deviation from the code: an element goes before the elements of equal key
InsertByKey_Unstable(seq, t) ==
  LET P == {i \in 0..Len(seq) :
              \A j \in 1..Len(seq) : j <= i <=> StrLess(KeyOf(seq[j]), KeyOf(t))}
      i == CHOOSE j \in P : TRUE
  IN  SubSeq(seq, 1, i) \o <<t>> \o SubSeq(seq, i + 1, Len(seq))

InsertByKey(seq, t) ==
  LET P == {i \in 0..Len(seq) :
              \A j \in 1..Len(seq) : j <= i <=> KeyLeq(KeyOf(seq[j]), KeyOf(t))}
      i == CHOOSE j \in P : TRUE
  IN  SubSeq(seq, 1, i) \o <<t>> \o SubSeq(seq, i + 1, Len(seq))

SortedByKey(seq) ==
  IF seq = <<>> THEN <<>>
  ELSE InsertByKey(SortedByKey(SubSeq(seq, 1, Len(seq) - 1)), seq[Len(seq)])

\* json.dump(sr, tmpw): the tuple is written as one line holding a JSON array
JsonDump(t) == [array |-> <<t[1], t[2], t[3], t[4]>>]

\* tuple(json.loads(i))
JsonLoads(line) ==
  <<line.array[1], line.array[2], line.array[3], line.array[4]>>

\* the lines write_tmp writes to a new temporary file
WriteTmp(buf) == [i \in 1..Len(buf) |-> JsonDump(SortedByKey(buf)[i])]

\* srtd.append(rec); if len(srtd) >= _MAX_SORT_BUF: write_tmp()
BufferStep(buf, stores, c, t) ==
  LET b == Append(buf, t)
  IN  IF Len(b) >= c
      THEN [srtd |-> <<>>, temps |-> Append(stores, WriteTmp(b))]
      ELSE [srtd |-> b, temps |-> stores]

\* deviation from the code: the buffer is spilled at the end of input even when it is empty
FinalFlush_Always(buf, stores) == Append(stores, WriteTmp(buf))

\* if srtd: write_tmp()
FinalFlush(buf, stores) ==
  IF buf # <<>> THEN Append(stores, WriteTmp(buf)) ELSE stores

(***************************************************************************)
(* heapq.merge of the stores with key=lambda x: x[0]: the heap holds       *)
(* [key, order, value] for the head of every iterable that is not          *)
(* exhausted, order being the position of the iterable; r[i] counts the    *)
(* lines of store i that the merge has yielded.                            *)
(***************************************************************************)
Live(stores, r) == {i \in 1..Len(stores) : r[i] < Len(stores[i])}

HeadTuple(stores, r, i) == JsonLoads(stores[i][r[i] + 1])

\* deviation from the code: among equal keys the later store comes first
HeapLeq_LaterFirst(stores, r, i, j) ==
  LET ki == KeyOf(JsonLoads(stores[i][r[i] + 1]))
      kj == KeyOf(JsonLoads(stores[j][r[j] + 1]))
  IN  StrLess(ki, kj) \/ (ki = kj /\ i >= j)

\* [key, order] of store i is not greater than that of store j
HeapLeq(stores, r, i, j) ==
  LET ki == KeyOf(HeadTuple(stores, r, i))
      kj == KeyOf(HeadTuple(stores, r, j))
  IN  StrLess(ki, kj) \/ (ki = kj /\ i <= j)

\* the store whose head is the top of the heap
MergePick(stores, r) ==
  CHOOSE i \in Live(stores, r) :
    \A j \in Live(stores, r) : HeapLeq(stores, r, i, j)

(***************************************************************************)
(* do_convert: the fold of one tuple into the record under construction    *)
(***************************************************************************)
\* rec.get(key) is None
GetIsNone(rec, f) == f \notin DOMAIN rec \/ rec[f].t = "null"

\* lst.append(value) raises AttributeError: only a list has append
AppendRaises(rec, t) ==
  t[2] = APPEND /\ ~GetIsNone(rec, t[3]) /\ rec[t[3]].t # "list"

\* deviation from the code: a Store does not overwrite a field that is present
Fold_KeepFirst(rec, t) ==
  IF t[2] = STORE
  THEN IF t[3] \in DOMAIN rec THEN rec ELSE DictSet(rec, t[3], t[4])
  ELSE IF t[2] = APPEND
  THEN IF GetIsNone(rec, t[3])
       THEN DictSet(rec, t[3], PyList(<<t[4]>>))
       ELSE DictSet(rec, t[3], PyList(Append(rec[t[3]].v, t[4])))
  ELSE rec

Fold(rec, t) ==
  IF t[2] = STORE THEN DictSet(rec, t[3], t[4])
  ELSE IF t[2] = APPEND
  THEN IF GetIsNone(rec, t[3])
       THEN DictSet(rec, t[3], PyList(<<t[4]>>))
       ELSE DictSet(rec, t[3], PyList(Append(rec[t[3]].v, t[4])))
  ELSE rec

\* the group of do_convert's loops: no group yet
NoGrp == [open |-> FALSE, id |-> <<>>, rec |-> EmptyDict]

\* the record the tuple t is folded into: that of the open group g, or
\* construct(id) when groupby opens a new group
GroupRec(k, g, t) ==
  IF ~g.open \/ g.id # KeyOf(t) THEN constructors(k, KeyOf(t)) ELSE g.rec

\* the records written once groupby has reached t: the record of the open
\* group is written when t opens a new one
GroupOut(g, o, t) ==
  IF g.open /\ g.id # KeyOf(t) THEN Append(o, g.rec) ELSE o

\* the tuple is folded into rec, or the fold raises and do_convert is left
FoldInto(rec, o, t) ==
  IF AppendRaises(rec, t)
  THEN [grp |-> [open |-> TRUE, id |-> KeyOf(t), rec |-> rec],
        out |-> o, pc |-> "error"]
  ELSE [grp |-> [open |-> TRUE, id |-> KeyOf(t), rec |-> Fold(rec, t)],
        out |-> o, pc |-> "merge"]

\* one tuple of the merged stream passes groupby and the fold
GroupStep(k, g, o, t) == FoldInto(GroupRec(k, g, t), GroupOut(g, o, t), t)

\* groupby is exhausted: the record of the last group is written
GroupEnd(g, o) == IF g.open THEN Append(o, g.rec) ELSE o

(***************************************************************************)
(* The stages as functions of their whole input, built from the steps      *)
(* above: what a complete run of each generator yields                     *)
(***************************************************************************)
RECURSIVE RoundrobinFrom(_, _, _, _)
RoundrobinFrom(seqs, p, cyc, pend) ==
  IF pend = 0 THEN <<>>
  ELSE LET a == Head(cyc)
       IN  IF p[a] < Len(seqs[a])
           THEN <<seqs[a][p[a] + 1]>> \o
                RoundrobinFrom(seqs, [p EXCEPT ![a] = @ + 1],
                               CycleAdvance(cyc), pend)
           ELSE RoundrobinFrom(seqs, p, CycleDrop(cyc, pend - 1), pend - 1)

roundrobin(seqs) ==
  RoundrobinFrom(seqs, [a \in 1..Len(seqs) |-> 0],
                 [a \in 1..Len(seqs) |-> a], Len(seqs))

\* the temporary files rec_sorted has written when its input is consumed
RECURSIVE SpillFrom(_, _, _, _, _)
SpillFrom(recs, i, buf, stores, c) ==
  IF i > Len(recs) THEN FinalFlush(buf, stores)
  ELSE LET b == BufferStep(buf, stores, c, recs[i])
       IN  SpillFrom(recs, i + 1, b.srtd, b.temps, c)

RECURSIVE MergeFrom(_, _)
MergeFrom(stores, r) ==
  IF Live(stores, r) = {} THEN <<>>
  ELSE LET i == MergePick(stores, r)
       IN  <<HeadTuple(stores, r, i)>> \o
           MergeFrom(stores, [r EXCEPT ![i] = @ + 1])

rec_sorted(recs, c) ==
  LET stores == SpillFrom(recs, 1, <<>>, <<>>, c)
  IN  MergeFrom(stores, [i \in 1..Len(stores) |-> 0])

RECURSIVE GroupFrom(_, _, _, _, _)
GroupFrom(k, merged, i, g, o) ==
  IF i > Len(merged) THEN [out |-> GroupEnd(g, o), pc |-> "done"]
  ELSE LET st == GroupStep(k, g, o, merged[i])
       IN  IF st.pc = "error" THEN [out |-> st.out, pc |-> "error"]
           ELSE GroupFrom(k, merged, i + 1, st.grp, st.out)

\* the records do_convert writes for a multiplexed input and a capacity
ConvertMux(k, recs, c) == GroupFrom(k, rec_sorted(recs, c), 1, NoGrp, <<>>)

\* the records do_convert writes for the adapters seqs
do_convert(k, seqs, c) == ConvertMux(k, roundrobin(seqs), c)

(***************************************************************************)
(* The state of one run of do_convert                                      *)
(***************************************************************************)
VARIABLES
  its,      \* the adapters' tuple sequences, in argument order
  kind,     \* args.kind
  cap,      \* _MAX_SORT_BUF
  pos,      \* pos[a]: the number of tuples adapter a has yielded
  nexts,    \* roundrobin: the cycle of pending adapters
  pending,  \* roundrobin: pending
  mux,      \* the tuples roundrobin has yielded so far, in order
  srtd,     \* rec_sorted: the buffer
  temps,    \* rec_sorted: the temporary files, each a sequence of lines
  rd,       \* heapq.merge: lines yielded from each temporary file
  grp,      \* do_convert: the group being folded (open, id, rec)
  out,      \* the records written to stdout
  closed,   \* rec_sorted: the temporary files whose descriptor is closed
  pc        \* "sort", "merge", "done", "error" (the fold raised) or
            \* "failed" (an adapter raised): an exception left do_convert

vars ==
  <<its, kind, cap, pos, nexts, pending, mux, srtd, temps, rd, grp, out,
    closed, pc>>

\* bounds of the inputs
NumAdapters == 3
MaxTuples   == 3
MaxChunk    == 3

ID_UNPARSED == <<"x">>
ID_SERIES   == <<"\"", "A", "\"", " ", "(", "2", "0", "1", "0", ")">>

KEYS   == {ID_UNPARSED, ID_SERIES}
FIELDS == {"f"}

\* the value of the i-th tuple of adapter a: every tuple has its own number;
\* the first adapter stores lists (as parse_movies does), the others scalars
ValueAt(a, i, mix) ==
  IF mix = STORE /\ a = 1 THEN PyList(<<PyInt(10 * a + i)>>)
  ELSE PyInt(10 * a + i)

RECURSIVE SumLens(_, _)
SumLens(lens, n) == IF n = 0 THEN 0 ELSE lens[n] + SumLens(lens, n - 1)

Slots(lens, n) == {s \in (1..n) \X (1..MaxTuples) : s[2] <= lens[s[1]]}

\* the state in which do_convert starts to pull
Start(n) ==
  /\ pos = [a \in 1..n |-> 0]
  /\ nexts = [a \in 1..n |-> a]
  /\ pending = n
  /\ mux = <<>>
  /\ srtd = <<>>
  /\ temps = <<>>
  /\ rd = <<>>
  /\ grp = NoGrp
  /\ out = <<>>
  /\ closed = {}
  /\ pc = "sort"

Init ==
  /\ \E n \in 1..NumAdapters : \E lens \in [1..n -> 0..MaxTuples] :
       /\ SumLens(lens, n) <= MaxTuples
       /\ \E ks \in [Slots(lens, n) -> KEYS] :
          \E ms \in [Slots(lens, n) -> {STORE, APPEND}] :
          \E fs \in [Slots(lens, n) -> FIELDS] :
            its = [a \in 1..n |->
                     [i \in 1..lens[a] |->
                        <<ks[<<a, i>>], ms[<<a, i>>], fs[<<a, i>>],
                          ValueAt(a, i, ms[<<a, i>>])>>]]
       /\ Start(n)
  /\ cap \in 1..MaxChunk
  /\ kind = TITLE

(***************************************************************************)
(* Identifiers for the classifier: a title, a year token and a tail        *)
(***************************************************************************)
CL_TITLES ==
  { <<"\"", "I", "n", "c", "e", "p", "t", "i", "o", "n", "\"">>,
    <<"I", "n", "c", "e", "p", "t", "i", "o", "n">>,
    <<"\"", "S", "h", "o", "w", "\"">> }

CL_YEARS ==
  { <<" ", "(", "2", "0", "1", "0", ")">>,
    <<"(", "2", "0", "1", "0", ")">>,
    <<" ", "(", "?", "?", "?", "?", ")">>,
    <<>> }

CL_TAILS ==
  { <<>>,
    <<" ", "(", "T", "V", ")">>,
    <<" ", "(", "V", ")">>,
    <<" ", "(", "V", "G", ")">>,
    <<" ", "(", "T", "V", ")", " ", "(", "V", ")">>,
    <<" ", "(", "V", ")", " ", "(", "T", "V", ")">>,
    <<"{", "P", "i", "l", "o", "t", " ", "(", "#", "1", ".", "1", ")", "}">>,
    <<" ", "{", "P", "i", "l", "o", "t", " ", "(", "#", "1", ".", "1", ")", "}">>,
    <<" ", "{", "P", "i", "l", "o", "t", " ", "(", "2", "0", "1", "0", "-", "0", "1", "-", "0", "2", ")", "}">>,
    <<" ", "{", "{", "S", "U", "S", "P", "E", "N", "D", "E", "D", "}", "}">> }

\* one adapter that yields one tuple, whose key is one of the identifiers
InitClassify ==
  /\ \E t \in CL_TITLES : \E y \in CL_YEARS : \E e \in CL_TAILS :
       its = << << <<t \o y \o e, STORE, "f", ValueAt(1, 1, STORE)>> >> >>
  /\ Start(1)
  /\ cap \in 1..MaxChunk
  /\ kind \in {TITLE, NAME}

(***************************************************************************)
(* roundrobin and the loop of rec_sorted that pulls from it                *)
(***************************************************************************)
\* yield next(): the head of the cycle has a tuple; the loop body of
\* rec_sorted appends it to the buffer and spills a full buffer
RoundrobinYield ==
  /\ pc = "sort"
  /\ pending > 0
  /\ LET a == Head(nexts)
     IN  /\ pos[a] < Len(its[a])
         /\ LET t == its[a][pos[a] + 1]
                b == BufferStep(srtd, temps, cap, t)
            IN  /\ pos' = [pos EXCEPT ![a] = @ + 1]
                /\ nexts' = CycleAdvance(nexts)
                /\ mux' = Append(mux, t)
                /\ srtd' = b.srtd
                /\ temps' = b.temps
  /\ UNCHANGED <<its, kind, cap, pending, rd, grp, out, closed, pc>>

\* except StopIteration: the head of the cycle is exhausted
RoundrobinStop ==
  /\ pc = "sort"
  /\ pending > 0
  /\ pos[Head(nexts)] = Len(its[Head(nexts)])
  /\ pending' = pending - 1
  /\ nexts' = CycleDrop(nexts, pending - 1)
  /\ UNCHANGED <<its, kind, cap, pos, mux, srtd, temps, rd, grp, out,
                 closed, pc>>

\* next() raises another exception than StopIteration (a parser meets a
\* line it cannot read, a compressed file ends early): roundrobin and
\* rec_sorted have no handler for it and it leaves do_convert; the frame of
\* rec_sorted, kept by the traceback, still holds temps
AdapterRaises ==
  /\ pc = "sort"
  /\ pending > 0
  /\ pc' = "failed"
  /\ UNCHANGED <<its, kind, cap, pos, nexts, pending, mux, srtd, temps, rd,
                 grp, out, closed>>

\* roundrobin returns: the last buffer is spilled and heapq.merge opens
\* every temporary file
EndOfInput ==
  /\ pc = "sort"
  /\ pending = 0
  /\ temps' = FinalFlush(srtd, temps)
  /\ srtd' = <<>>
  /\ rd' = [i \in 1..Len(temps') |-> 0]
  /\ pc' = "merge"
  /\ UNCHANGED <<its, kind, cap, pos, nexts, pending, mux, grp, out, closed>>

(***************************************************************************)
(* heapq.merge, itertools.groupby and the fold                             *)
(***************************************************************************)
\* the temporary files whose reader has met the end of the file: rec_sorted
\* closes no file itself; the reader made by open(f.fileno()) owns the
\* descriptor and closes it when the generator expression that reads it
\* ends and drops it (reference counting)
Exhausted(stores, r) == {i \in 1..Len(stores) : r[i] = Len(stores[i])}

\* the files closed once the fold runs on a tuple: resumed, the merge has
\* first advanced the reader it yielded from last, which ends when its file
\* is read; a fold that raises unwinds do_convert, which drops the
\* generators and with them every reader
ClosedAfter(stores, r, st) ==
  IF st.pc = "error" THEN 1..Len(stores) ELSE Exhausted(stores, r)

\* the merge yields the top of the heap; groupby hands it to the open group
\* or closes that group (its record is written) and opens the next one
MergeNext ==
  /\ pc = "merge"
  /\ Live(temps, rd) # {}
  /\ rd' = [rd EXCEPT ![MergePick(temps, rd)] = @ + 1]
  /\ \E st \in {GroupStep(kind, grp, out,
                          HeadTuple(temps, rd, MergePick(temps, rd)))} :
       /\ grp' = st.grp
       /\ out' = st.out
       /\ pc' = st.pc
       /\ closed' = ClosedAfter(temps, rd, st)
  /\ UNCHANGED <<its, kind, cap, pos, nexts, pending, mux, srtd, temps>>

\* the merge is exhausted: the last record is written, do_convert returns
MergeDone ==
  /\ pc = "merge"
  /\ Live(temps, rd) = {}
  /\ out' = GroupEnd(grp, out)
  /\ grp' = NoGrp
  /\ closed' = Exhausted(temps, rd)
  /\ pc' = "done"
  /\ UNCHANGED <<its, kind, cap, pos, nexts, pending, mux, srtd, temps, rd>>

Next ==
  \/ RoundrobinYield
  \/ RoundrobinStop
  \/ AdapterRaises
  \/ EndOfInput
  \/ MergeNext
  \/ MergeDone

Spec == Init /\ [][Next]_vars

SpecClassify == InitClassify /\ [][Next]_vars

\* a finished or aborted run wrote what the stages, run to completion, yield
RunAgrees ==
  pc \in {"done", "error"} =>
    /\ mux = roundrobin(its)
    /\ do_convert(kind, its, cap) = [out |-> out, pc |-> pc]

(***************************************************************************)
(* Vocabulary of the properties                                            *)
(***************************************************************************)
Range(seq) == {seq[i] : i \in 1..Len(seq)}

KeysIn(seq) == {KeyOf(seq[i]) : i \in 1..Len(seq)}

\* the key of an emitted record
RecId(r) == r["id"].v

\* the tuples of key k and field f, in the order of the sequence
TuplesOf(seq, k, f) == SelectSeq(seq, LAMBDA t : t[1] = k /\ t[3] = f)

TuplesOfKey(seq, k) == SelectSeq(seq, LAMBDA t : t[1] = k)

ValuesOf(seq) == [i \in 1..Len(seq) |-> seq[i][4]]

AllAppend(seq) == \A i \in 1..Len(seq) : seq[i][2] = APPEND

\* the tuples a temporary file holds
StoreTuples(store) == [i \in 1..Len(store) |-> JsonLoads(store[i])]

\* the stores that hold a tuple of key k
StoresWith(k) ==
  {i \in 1..Len(temps) : k \in KeysIn(StoreTuples(temps[i]))}

BagOf(seq) ==
  [x \in Range(seq) |-> Cardinality({i \in 1..Len(seq) : seq[i] = x})]

RECURSIVE Concat(_, _)
Concat(seqs, n) == IF n = 0 THEN <<>> ELSE Concat(seqs, n - 1) \o seqs[n]

\* the i-th chunk of c tuples of the multiplexed input
Chunk(i, c) == SubSeq(mux, (i - 1) * c + 1, Min2(i * c, Len(mux)))

Consumed == pc \notin {"sort", "failed"}

(***************************************************************************)
(* C1: the emitted records have strictly increasing keys at every moment   *)
(* (no key twice, no key after a larger one), the group being folded has a *)
(* key above all of them, and a run that completes has emitted one record  *)
(* for every key of the input.                                             *)
(***************************************************************************)
C1_KeyOrder ==
  /\ \A i, j \in 1..Len(out) : i < j => StrLess(RecId(out[i]), RecId(out[j]))
  /\ grp.open => \A i \in 1..Len(out) : StrLess(RecId(out[i]), grp.id)
  /\ pc = "done" => {RecId(out[i]) : i \in 1..Len(out)} = KeysIn(mux)

\* two keys met out of order in the input, one of them twice with the other
\* in between, spread over several stores
C1_Witness ==
  /\ pc = "done"
  /\ Len(out) = 2
  /\ Len(temps) >= 2
  /\ \E i \in 1..Len(mux) - 2 :
       KeyOf(mux[i]) = KeyOf(mux[i + 2]) /\ KeyOf(mux[i]) # KeyOf(mux[i + 1])
  /\ \E i, j \in 1..Len(mux) : i < j /\ StrLess(KeyOf(mux[j]), KeyOf(mux[i]))

(***************************************************************************)
(* C2: in every emitted record, a field that received only Append tuples   *)
(* holds the list of their values in the order roundrobin yielded them.    *)
(***************************************************************************)
C2_AppendOrder ==
  \A n \in 1..Len(out) : \A f \in FIELDS :
    LET ts == TuplesOf(mux, RecId(out[n]), f)
    IN  (ts # <<>> /\ AllAppend(ts)) =>
          /\ f \in DOMAIN out[n]
          /\ out[n][f] = PyList(ValuesOf(ts))

\* a key whose Append tuples were spilled into different stores
C2_Witness ==
  /\ pc = "done"
  /\ \E n \in 1..Len(out) : \E f \in FIELDS :
       /\ Len(TuplesOf(mux, RecId(out[n]), f)) >= 2
       /\ AllAppend(TuplesOf(mux, RecId(out[n]), f))
       /\ Cardinality(StoresWith(RecId(out[n]))) >= 2

(***************************************************************************)
(* C3: in every emitted record, a field whose last tuple in the order of   *)
(* roundrobin is a Store holds the value of that tuple.                    *)
(***************************************************************************)
C3_LastStoreWins ==
  \A n \in 1..Len(out) : \A f \in FIELDS :
    LET ts == TuplesOf(mux, RecId(out[n]), f)
    IN  (ts # <<>> /\ ts[Len(ts)][2] = STORE) =>
          /\ f \in DOMAIN out[n]
          /\ out[n][f] = ts[Len(ts)][4]

\* a Store that overwrites what tuples of other stores left in the field
C3_Witness ==
  /\ pc = "done"
  /\ \E n \in 1..Len(out) : \E f \in FIELDS :
       LET ts == TuplesOf(mux, RecId(out[n]), f)
       IN  /\ Len(ts) >= 2
           /\ ts[Len(ts)][2] = STORE
           /\ Cardinality(StoresWith(RecId(out[n]))) >= 2

(***************************************************************************)
(* C4: roundrobin yields the round-robin interleaving: the tuple number r  *)
(* (from 0) of adapter a comes after the first r tuples of every adapter   *)
(* and after tuple r of the earlier adapters that have one; when the       *)
(* generator has ended every tuple has been yielded.                       *)
(***************************************************************************)
RECURSIVE CountBefore(_, _, _)
CountBefore(a, r, b) ==
  IF b = 0 THEN 0
  ELSE CountBefore(a, r, b - 1)
       + Min2(Len(its[b]), r)
       + (IF b < a /\ Len(its[b]) > r THEN 1 ELSE 0)

\* the place of tuple r of adapter a in the interleaving
PlaceOf(a, r) == CountBefore(a, r, Len(its)) + 1

TotalTuples == CountBefore(Len(its) + 1, MaxTuples + 1, Len(its))

C4_RoundRobin ==
  /\ Len(mux) <= TotalTuples
  /\ \A a \in 1..Len(its) : \A r \in 0..(Len(its[a]) - 1) :
       PlaceOf(a, r) <= Len(mux) => mux[PlaceOf(a, r)] = its[a][r + 1]
  /\ Consumed => Len(mux) = TotalTuples

\* three adapters: one empty, the other two exhausted in the same round
C4_Witness ==
  /\ Consumed
  /\ Len(its) = 3
  /\ \E a, b, c \in 1..3 :
       /\ Len(its[a]) = 0
       /\ b < c
       /\ Len(its[b]) >= 1
       /\ Len(its[b]) = Len(its[c])

(***************************************************************************)
(* C5: when rec_sorted has consumed its input, the temporary files hold    *)
(* together exactly the tuples of the input, and each file is              *)
(* non-decreasing in key with the tuples of one key in arrival order.      *)
(***************************************************************************)
C5_StoresHoldInput ==
  Consumed =>
    /\ BagOf(Concat([i \in 1..Len(temps) |-> StoreTuples(temps[i])],
                    Len(temps))) = BagOf(mux)
    /\ \A i \in 1..Len(temps) :
         LET st == StoreTuples(temps[i])
         IN  /\ \A p, q \in 1..Len(st) :
                  p < q => KeyLeq(KeyOf(st[p]), KeyOf(st[q]))
             /\ \A k \in KeysIn(st) :
                  TuplesOfKey(st, k) = TuplesOfKey(Chunk(i, cap), k)

\* a store whose chunk arrived unsorted and holds two tuples of one key
C5_Witness ==
  /\ Consumed
  /\ Len(temps) >= 1
  /\ \E i \in 1..Len(temps) :
       LET ch == Chunk(i, cap)
       IN  /\ \E p, q \in 1..Len(ch) :
                p < q /\ StrLess(KeyOf(ch[q]), KeyOf(ch[p]))
           /\ \E p, q \in 1..Len(ch) : p < q /\ KeyOf(ch[q]) = KeyOf(ch[p])

(***************************************************************************)
(* C6: n tuples and capacity C give ceil(n / C) temporary files, none of   *)
(* them empty.                                                             *)
(***************************************************************************)
C6_StoreCount ==
  Consumed =>
    /\ Len(temps) = (Len(mux) + cap - 1) \div cap
    /\ \A i \in 1..Len(temps) : temps[i] # <<>>

\* an input that fills the last buffer exactly
C6_Witness ==
  /\ Consumed
  /\ Len(mux) > 0
  /\ Len(mux) % cap = 0
  /\ Len(temps) = Len(mux) \div cap

(***************************************************************************)
(* C7: a run with capacity C and a run over the same multiplexed input     *)
(* with capacity C/2 write the same sequence of records.                   *)
(***************************************************************************)
C7_HalfCapacity ==
  (pc \in {"done", "error"} /\ cap >= 2) =>
    ConvertMux(kind, mux, cap \div 2) = [out |-> out, pc |-> pc]

\* the halved capacity spills more stores, and some key has two tuples
C7_Witness ==
  /\ pc = "done"
  /\ cap >= 2
  /\ Len(SpillFrom(mux, 1, <<>>, <<>>, cap \div 2)) > Len(temps)
  /\ \E n \in 1..Len(out) : Len(TuplesOfKey(mux, RecId(out[n]))) >= 2

(***************************************************************************)
(* C8                                                                      *)
(***************************************************************************)
\* the adapters in the order p
Permuted(p) == [a \in 1..Len(its) |-> its[p[a]]]

\* what roundrobin yields for the adapters in the order p
MuxOf(p) == roundrobin(Permuted(p))

\* the same records, lists compared without regard to the order of elements
SameButListOrder(o1, o2) ==
  /\ Len(o1) = Len(o2)
  /\ \A n \in 1..Len(o1) :
       /\ DOMAIN o1[n] = DOMAIN o2[n]
       /\ \A f \in DOMAIN o1[n] :
            \/ o1[n][f] = o2[n][f]
            \/ /\ o1[n][f].t = "list"
               /\ o2[n][f].t = "list"
               /\ BagOf(o1[n][f].v) = BagOf(o2[n][f].v)

\* the run r wrote the records of this run up to the order of elements
\* inside lists, and ended as this run did
SameRun(r) == r.pc = pc /\ SameButListOrder(out, r.out)

\* the run over a multiplexed input m agrees with this run; do_convert reads
\* the adapters through roundrobin only, so an input equal to this run's
\* gives this run
SameRunOn(m) == m = mux \/ SameRun(ConvertMux(kind, m, cap))

\* the adapters that yield a tuple of key k and field f
SourcesOf(k, f) == {a \in 1..Len(its) : TuplesOf(its[a], k, f) # <<>>}

\* a (key, field) that receives a Store tuple has one source only
SingleSourceStores ==
  \A k \in KeysIn(mux) : \A f \in FIELDS :
    ~AllAppend(TuplesOf(mux, k, f)) => Cardinality(SourcesOf(k, f)) <= 1

\* C8 as stated: whatever the order of the adapters, a completed run writes
\* the same records up to the order of elements inside lists.
C8_AnyOrderSameRecords ==
  pc = "done" =>
    \A p \in Permutations(1..Len(its)) :
      SameButListOrder(out, ConvertMux(kind, MuxOf(p), cap).out)

\* C8 amended: when every (key, field) that receives a Store tuple gets all
\* its tuples from one adapter, the run writes the same records, up to the
\* order of elements inside lists, whatever the order of the adapters (and
\* it aborts in one order exactly when it aborts in every order).
C8_SingleSourceSameRecords ==
  (pc \in {"done", "error"} /\ SingleSourceStores) =>
    \A p \in Permutations(1..Len(its)) :
      SameRunOn(MuxOf(p))

\* a Store from one adapter and a list appended to by two adapters, whose
\* order of elements changes with the order of the adapters
C8_Witness ==
  /\ pc = "done"
  /\ SingleSourceStores
  /\ \E n \in 1..Len(mux) : mux[n][2] = STORE
  /\ \E p \in Permutations(1..Len(its)) :
       ConvertMux(kind, MuxOf(p), cap).out # out

(***************************************************************************)
(* C9: a key the classifier does not match still gets its record: the run  *)
(* is not left because of it (only a fold that raises leaves it), the      *)
(* record under construction holds the id and update fields only, and a    *)
(* completed run has written one record for the key with the id and the    *)
(* fields of its update tuples.                                            *)
(***************************************************************************)
Unparsed(k) == ~TID_PAT(k).ok

FieldsOf(k) == {f \in FIELDS : TuplesOf(mux, k, f) # <<>>}

C9_UnparsedKept ==
  kind = TITLE =>
    /\ (grp.open /\ Unparsed(grp.id)) =>
          /\ grp.rec["id"] = PyStr(grp.id)
          /\ DOMAIN grp.rec \subseteq {"id"} \cup FieldsOf(grp.id)
    /\ pc = "error" =>
          \E f \in FieldsOf(grp.id) :
            /\ f \in DOMAIN grp.rec
            /\ grp.rec[f].t \notin {"list", "null"}
    /\ pc = "done" =>
          \A k \in KeysIn(mux) :
            Unparsed(k) =>
              /\ Cardinality({n \in 1..Len(out) : RecId(out[n]) = k}) = 1
              /\ \A n \in 1..Len(out) :
                   RecId(out[n]) = k =>
                     DOMAIN out[n] = {"id"} \cup FieldsOf(k)

\* a completed run that met an unmatched key between matched ones
C9_Witness ==
  /\ pc = "done"
  /\ kind = TITLE
  /\ Len(out) >= 2
  /\ \E n \in 1..Len(out) : Unparsed(RecId(out[n]))
  /\ \E n \in 1..Len(out) : ~Unparsed(RecId(out[n]))

(***************************************************************************)
(* C10                                                                     *)
(***************************************************************************)
ID_INCEPTION_QUOTED == <<"\"", "I", "n", "c", "e", "p", "t", "i", "o", "n", "\"", " ", "(", "2", "0", "1", "0", ")">>
ID_INCEPTION_PLAIN  == <<"I", "n", "c", "e", "p", "t", "i", "o", "n", " ", "(", "2", "0", "1", "0", ")">>
ID_SHOW             == <<"\"", "S", "h", "o", "w", "\"", " ", "(", "2", "0", "1", "0", ")">>
ID_SHOW_PILOT_TIGHT == <<"\"", "S", "h", "o", "w", "\"", " ", "(", "2", "0", "1", "0", ")", "{", "P", "i", "l", "o", "t", " ", "(", "#", "1", ".", "1", ")", "}">>
ID_SHOW_PILOT_SPACE == <<"\"", "S", "h", "o", "w", "\"", " ", "(", "2", "0", "1", "0", ")", " ", "{", "P", "i", "l", "o", "t", " ", "(", "#", "1", ".", "1", ")", "}">>
ID_NO_YEAR          == <<"I", "n", "c", "e", "p", "t", "i", "o", "n">>

\* the record written for the identifier id has the kind k
HasKind(id, k) ==
  \A n \in 1..Len(out) :
    RecId(out[n]) = id => ("kind" \in DOMAIN out[n] /\ out[n]["kind"] = PyStr(k))

\* the record written for the identifier id has no kind
HasNoKind(id) ==
  \A n \in 1..Len(out) : RecId(out[n]) = id => "kind" \notin DOMAIN out[n]

\* the record written for the identifier id is an episode, season 1 episode 1
IsPilot(id) ==
  /\ HasKind(id, KIND_EPISODE)
  /\ \A n \in 1..Len(out) :
       RecId(out[n]) = id =>
         /\ "episode" \in DOMAIN out[n]
         /\ {"season", "episode"} \subseteq DOMAIN out[n]["episode"].v
         /\ out[n]["episode"].v["season"] = PyInt(1)
         /\ out[n]["episode"].v["episode"] = PyInt(1)

\* C10 as stated: "Inception" (2010) is a movie, "Show" (2010){Pilot (#1.1)}
\* is an episode of season 1 and number 1, "Show" (2010) is a series, and an
\* unmatched string has no kind.
C10_AsStated ==
  kind = TITLE =>
    /\ HasKind(ID_INCEPTION_QUOTED, KIND_MOVIE)
    /\ IsPilot(ID_SHOW_PILOT_TIGHT)
    /\ HasKind(ID_SHOW, KIND_SERIES)
    /\ HasNoKind(ID_NO_YEAR)

\* C10 amended: the quoted "Inception" (2010) is a series and the unquoted
\* Inception (2010) is a movie; "Show" (2010) {Pilot (#1.1)}, with whitespace
\* before the brace, is an episode of season 1 and number 1, and without
\* the whitespace it has no kind; "Show" (2010) is a series; an unmatched
\* string has no kind.
C10_Classified ==
  kind = TITLE =>
    /\ HasKind(ID_INCEPTION_QUOTED, KIND_SERIES)
    /\ HasKind(ID_INCEPTION_PLAIN, KIND_MOVIE)
    /\ IsPilot(ID_SHOW_PILOT_SPACE)
    /\ HasNoKind(ID_SHOW_PILOT_TIGHT)
    /\ HasKind(ID_SHOW, KIND_SERIES)
    /\ HasNoKind(ID_NO_YEAR)

\* the record of the episode has been written
C10_Witness ==
  /\ pc = "done"
  /\ kind = TITLE
  /\ Len(out) = 1
  /\ RecId(out[1]) = ID_SHOW_PILOT_SPACE

(***************************************************************************)
(* C11: every temporary file of rec_sorted is released once the merge has  *)
(* drained it, and when the run is aborted (an adapter raises, the fold    *)
(* raises) every file created so far is released before the failure leaves *)
(* do_convert; no file outlives the run.                                   *)
(***************************************************************************)
\* the temporary files whose descriptor is still open
OpenStores == (1..Len(temps)) \ closed

\* C11 as stated: while the merge runs, a drained file is closed as soon as
\* the merge is resumed (at most the file it yielded from last is drained and
\* open), and no file is open once the run has returned or an exception has
\* left do_convert.
C11_StoresReleased ==
  /\ pc = "merge" => Cardinality(Exhausted(temps, rd) \cap OpenStores) <= 1
  /\ pc \in {"done", "error", "failed"} => OpenStores = {}

(***************************************************************************)
(* C12: in the non-series form at most one of the markers (TV), (V), (VG)  *)
(* follows the year token: one marker gives tv-movie, video or videogame,  *)
(* no marker gives movie, and an identifier with two of the markers is not *)
(* classified through this form.                                           *)
(***************************************************************************)
MARK_TV == <<" ", "(", "T", "V", ")">>
MARK_V  == <<" ", "(", "V", ")">>
MARK_VG == <<" ", "(", "V", "G", ")">>

\* C12 as stated, on Inception (2010) and what follows it: the unquoted
\* title matches the non-series form only, so an identifier that form
\* rejects has no kind.
C12_AtMostOneMarker ==
  kind = TITLE =>
    /\ HasKind(ID_INCEPTION_PLAIN, KIND_MOVIE)
    /\ HasKind(ID_INCEPTION_PLAIN \o MARK_TV, KIND_TV_MOVIE)
    /\ HasKind(ID_INCEPTION_PLAIN \o MARK_V, KIND_VIDEO)
    /\ HasKind(ID_INCEPTION_PLAIN \o MARK_VG, KIND_VIDEOGAME)
    /\ HasNoKind(ID_INCEPTION_PLAIN \o MARK_TV \o MARK_V)
    /\ HasNoKind(ID_INCEPTION_PLAIN \o MARK_V \o MARK_TV)

(***************************************************************************)
(* do_merge: the files of args.file are read as JSON lines, merged by      *)
(* heapq.merge on 'id', grouped by itertools.groupby on 'id', and every    *)
(* group is folded by dict.update into one record.  A run of do_merge      *)
(* keeps the files in its, the lines the merge has yielded from each in    *)
(* rd, the group being folded in grp and the records written in out.       *)
(***************************************************************************)
\* json.loads of the i-th line of file a: a record of the key k that carries
\* the field "f", with a value of its own, or no field but 'id'
LineAt(a, i, k, has) ==
  IF has THEN DictSet(DictSet(EmptyDict, "id", PyStr(k)), "f",
                      PyInt(10 * a + i))
  ELSE DictSet(EmptyDict, "id", PyStr(k))

InitMerge ==
  /\ \E n \in 1..NumAdapters : \E lens \in [1..n -> 0..MaxTuples] :
       /\ SumLens(lens, n) <= MaxTuples
       /\ \E ks \in [Slots(lens, n) -> KEYS] :
          \E hs \in [Slots(lens, n) -> BOOLEAN] :
            its = [a \in 1..n |->
                     [i \in 1..lens[a] |->
                        LineAt(a, i, ks[<<a, i>>], hs[<<a, i>>])]]
       /\ rd = [a \in 1..n |-> 0]
  /\ kind = "merge"
  /\ cap = 1
  /\ pos = <<>>
  /\ nexts = <<>>
  /\ pending = 0
  /\ mux = <<>>
  /\ srtd = <<>>
  /\ temps = <<>>
  /\ closed = {}
  /\ grp = NoGrp
  /\ out = <<>>
  /\ pc = "do_merge"

\* key=lambda x: x['id']
IdOf(r) == r["id"].v

\* the next record of file i
HeadRec(files, r, i) == files[i][r[i] + 1]

\* deviation from the code: among equal ids the later file comes first
IdLeq_LaterFirst(files, r, i, j) ==
  LET ki == IdOf(HeadRec(files, r, i))
      kj == IdOf(HeadRec(files, r, j))
  IN  StrLess(ki, kj) \/ (ki = kj /\ i >= j)

\* the heap entry [id, order] of file i is not greater than that of file j
IdLeq(files, r, i, j) ==
  LET ki == IdOf(HeadRec(files, r, i))
      kj == IdOf(HeadRec(files, r, j))
  IN  StrLess(ki, kj) \/ (ki = kj /\ i <= j)

\* the file whose head is the top of the heap
MergePickId(files, r) ==
  CHOOSE i \in Live(files, r) : \A j \in Live(files, r) : IdLeq(files, r, i, j)

\* deviation from the code: a field the record holds is not overwritten
Update_KeepOld(rec, r) == rec @@ r

\* rec.update(r)
Update(rec, r) == r @@ rec

\* groupby hands the record r to the open group, or closes that group (its
\* record is written) and opens the next one with rec = {}
MergeStep(g, o, r) ==
  IF g.open /\ g.id = IdOf(r)
  THEN [grp |-> [g EXCEPT !.rec = Update(g.rec, r)], out |-> o]
  ELSE [grp |-> [open |-> TRUE, id |-> IdOf(r), rec |-> Update(EmptyDict, r)],
        out |-> GroupEnd(g, o)]

\* the merge yields the top of the heap and the record is folded
DoMergeNext ==
  /\ pc = "do_merge"
  /\ Live(its, rd) # {}
  /\ rd' = [rd EXCEPT ![MergePickId(its, rd)] = @ + 1]
  /\ \E st \in {MergeStep(grp, out, HeadRec(its, rd, MergePickId(its, rd)))} :
       /\ grp' = st.grp
       /\ out' = st.out
  /\ UNCHANGED <<its, kind, cap, pos, nexts, pending, mux, srtd, temps,
                 closed, pc>>

\* the merge is exhausted: the last record is written, do_merge returns
DoMergeDone ==
  /\ pc = "do_merge"
  /\ Live(its, rd) = {}
  /\ out' = GroupEnd(grp, out)
  /\ grp' = NoGrp
  /\ pc' = "merged"
  /\ UNCHANGED <<its, kind, cap, pos, nexts, pending, mux, srtd, temps,
                 closed, rd>>

NextMerge ==
  \/ DoMergeNext
  \/ DoMergeDone

SpecMerge == InitMerge /\ [][NextMerge]_vars

(***************************************************************************)
(* C13: for files that are each non-decreasing in 'id', do_merge writes    *)
(* one record per id, in increasing order of id, and every field of a      *)
(* record holds the value of the last input record of that id that carries *)
(* the field, the records of an id taken file after file in the order of   *)
(* the arguments and, inside a file, in the order of its lines.            *)
(***************************************************************************)
\* every file is non-decreasing in 'id'
SortedFiles ==
  \A a \in 1..Len(its) : \A i \in 1..(Len(its[a]) - 1) :
    ~StrLess(IdOf(its[a][i + 1]), IdOf(its[a][i]))

\* the records of the id k that carry the field f: file after file
Carriers(k, f) ==
  SelectSeq(Concat(its, Len(its)),
            LAMBDA r : IdOf(r) = k /\ f \in DOMAIN r)

IdsIn == {IdOf(its[a][i]) : <<a, i>> \in Slots([a \in 1..Len(its) |-> Len(its[a])], Len(its))}

C13_MergeLastWins ==
  (pc = "merged" /\ SortedFiles) =>
    /\ {IdOf(out[n]) : n \in 1..Len(out)} = IdsIn
    /\ \A n \in 1..(Len(out) - 1) : StrLess(IdOf(out[n]), IdOf(out[n + 1]))
    /\ \A n \in 1..Len(out) :
         /\ DOMAIN out[n] \subseteq {"id", "f"}
         /\ LET c == Carriers(IdOf(out[n]), "f")
            IN  IF c = <<>> THEN "f" \notin DOMAIN out[n]
                ELSE "f" \in DOMAIN out[n] /\ out[n]["f"] = c[Len(c)]["f"]

\* two sorted files that hold two ids and share one of them, both carrying
\* the field for it
C13_Witness ==
  /\ pc = "merged"
  /\ SortedFiles
  /\ Len(out) = 2
  /\ \E a, b \in 1..Len(its) : \E k \in KEYS :
       /\ a < b
       /\ \E i \in 1..Len(its[a]) :
            IdOf(its[a][i]) = k /\ "f" \in DOMAIN its[a][i]
       /\ \E i \in 1..Len(its[b]) :
            IdOf(its[b][i]) = k /\ "f" \in DOMAIN its[b][i]

=============================================================================
